---- MODULE Spec2Model ----
(***************************************************************************)
(* One page instance of the simple-authenticated-webapp: the Identity      *)
(* Session (js/auth.js), the Authenticated Data Client (js/dataService.js) *)
(* and the Coordinator handlers (app.js), on the single event-loop thread. *)
(* Every action is one run-to-completion slice of a handler: from its call *)
(* (or the resolution of the promise it awaits) to its next await/return.  *)
(***************************************************************************)
EXTENDS Naturals, Sequences, FiniteSets, TLC

----------------------------------------------------------------------------
(* Bounds of the model *)

\* data-endpoint HTTP requests issued during the page's life
MaxRequests == 2
\* 'msalLoginSuccess' events delivered to the page
MaxLogins == 1
\* dot-separated segments of an idToken the provider hands out
MaxSegments == 4

----------------------------------------------------------------------------
(* Values *)

Users == {"alice", "bob"}
\* the account already known to the provider when the page loads, if there is
\* one (the users are interchangeable, so one name stands for either)
FirstUser == "alice"

\* JavaScript null, for the string-valued fields
Null == "null"
\* null for the token fields; a token is a tuple of dot-separated segments
NoToken == << >>
\* null for lastFetched / lastModified; the clock reads 1 or more
NoTime == 0
\* null for a payload
NoData == [kind |-> "null"]

\* tokenResponse.idToken / tokenResponse.accessToken for an account
IdTokenOf(u) == <<"hdr", u, "sig">>
AccessTokenOf(u) == <<"access", u>>
\* the principal a held token was issued to (Null when no token is held)
TokenUser(tok) == IF tok = NoToken THEN Null ELSE tok[2]

STATUS == [IDLE |-> "idle", LOADING |-> "loading", SUCCESS |-> "success", ERROR |-> "error"]

ErrNoToken == "No authentication token available. Please sign in."
ErrApiFailed == "API request failed with status"
ErrUnknown == "Unknown error occurred while fetching data"
ErrFailedToFetch == "Failed to fetch"
ErrBadJson == "Unexpected token in JSON"
\* error.message of a rejected fetch: a TypeError text, possibly empty
RejectMessages == {ErrFailedToFetch, ""}

\* what the network and the body reader can do with one request
ResponseKinds == {"ok", "http", "reject", "badjson"}
\* a response kind with the message of the exception it ends with ("" when
\* the kind fixes the message)
Responses ==
    { <<kind, "">> : kind \in ResponseKinds \ {"reject"} } \cup
    { <<"reject", msg>> : msg \in RejectMessages }

\* the body a 2xx response to request number req, authorised by tok, parses to
PrimaryPayload(tok, req) ==
    [kind |-> "primary", by |-> TokenUser(tok), req |-> req, lastModified |-> NoTime]
DeltaPayload(tok, req) ==
    [kind |-> "delta", by |-> TokenUser(tok), req |-> req, lastModified |-> NoTime]
\* objects a caller hands to saveUserData: with and without a lastModified of its own
CallerPayloads ==
    { [kind |-> "caller", by |-> Null, req |-> 0, lastModified |-> t] : t \in {NoTime, 1} }

----------------------------------------------------------------------------
(* State *)

VARIABLES
    page,             \* "loading" | "running" | "unloaded" (navigated away)
    msalInstance,     \* FALSE = null, TRUE = a PublicClientApplication
    providerAccount,  \* msalInstance.getAllAccounts()[0], or Null
    redirect,         \* provider redirect in progress: "none" | "login" | "logout"
    userSessionData,  \* auth.js: userDetails, idToken, accessToken
    dataCache,        \* dataService.js: status, error, lastFetched, data, userdata
    APP_STATE,        \* app.js: initialized, authenticated
    uiHandlers,       \* ui.initializeUI has wired the button callbacks
    ui,               \* ui.js: which sections are displayed, the status lines' text and class
    browserStorage,   \* what the code has written to localStorage / sessionStorage / cookies
    dataCalls,        \* Data Client calls suspended at their await fetch(...)
    detailCalls,      \* getUserDetails calls (of updateUserState) suspended at an await
    netCount,         \* data-endpoint requests issued so far
    loginCount,       \* msalLoginSuccess events delivered so far
    last,             \* history: the Data Client call that completed most recently
    attempt,          \* history: the fetch attempt started most recently, and how it ended
    signedOut,        \* history: signOut ran and no later sign-in stored a token
    logoutSeen        \* history: the session fields as they were when logout(...) was invoked

authVars == <<msalInstance, providerAccount, redirect, userSessionData, detailCalls,
              loginCount, signedOut, logoutSeen, browserStorage>>
dataVars == <<dataCache, dataCalls, netCount, last, attempt>>
appVars  == <<page, APP_STATE, uiHandlers, ui>>
vars == <<page, msalInstance, providerAccount, redirect, userSessionData, dataCache,
          APP_STATE, uiHandlers, ui, browserStorage, dataCalls, detailCalls, netCount,
          loginCount, last, attempt, signedOut, logoutSeen>>

InitSession == [userDetails |-> Null, idToken |-> NoToken, accessToken |-> NoToken]

InitCache ==
    [status |-> STATUS.IDLE, error |-> Null, lastFetched |-> NoTime,
     data |-> NoData, userdata |-> NoData]

NoCall ==
    [op |-> "none", fr |-> FALSE, issued |-> FALSE, outcome |-> "none",
     value |-> NoData, err |-> Null]

\* a status line that shows nothing
NoStatus == [text |-> "", class |-> ""]

\* the page as index.html is taken to lay it out: the sections for signed-in
\* users are not displayed until the code displays them
InitUi ==
    [tokenSection |-> FALSE, dataSection |-> FALSE, adminSection |-> FALSE,
     dataStatus |-> NoStatus, deltaStatus |-> NoStatus,
     deltaList |-> [shown |-> FALSE, files |-> << >>]]

\* no fetch has been attempted (or the cache was cleared since)
NoAttempt == [req |-> 0, outcome |-> "none"]

\* an attempt that threw at the token check: it has no request
Refused == [req |-> 0, outcome |-> "failed"]

Init ==
    /\ page = "loading"
    /\ msalInstance = FALSE
    /\ providerAccount \in {FirstUser, Null}
    /\ redirect = "none"
    /\ userSessionData = InitSession
    /\ dataCache = InitCache
    /\ APP_STATE = [initialized |-> FALSE, authenticated |-> FALSE]
    /\ uiHandlers = FALSE
    /\ ui = InitUi
    /\ browserStorage = {}
    /\ dataCalls = {}
    /\ detailCalls = {}
    /\ netCount = 0
    /\ loginCount = 0
    /\ last = NoCall
    /\ attempt = NoAttempt
    /\ signedOut = FALSE
    /\ logoutSeen = << >>

\* initializeApp has run (DOMContentLoaded) and the page has not navigated away:
\* handlers, promise reactions and importers' calls run only then
Alive == page = "running"

\* Date.now() / new Date(): a logical clock, one tick per request issued
Now == netCount + 1

----------------------------------------------------------------------------
(* Identity Session (js/auth.js) *)

getIdToken == userSessionData.idToken

\* the id of a getUserDetails call made by an importer of auth.js itself, not
\* by updateUserState (whose calls are numbered from 0)
DirectCall == 0 - 1

getAccount == IF ~msalInstance THEN Null ELSE providerAccount

\* the segments a token is made of: a header, a signature, the payload issued
\* to a user, a segment that is not base64 ("!!") and the base64 of text that
\* is not JSON ("bm8" is 'no')
SegmentValues == {"hdr", "sig", "!!", "bm8"} \cup Users

\* the idToken values a token response can carry, as idToken.split('.') sees them
RECURSIVE TokensOfLength(_)
TokensOfLength(n) ==
    IF n = 0 THEN { << >> }
    ELSE { Append(t, seg) : t \in TokensOfLength(n - 1), seg \in SegmentValues }

TokenInputs == UNION { TokensOfLength(n) : n \in 0..MaxSegments }

\* atob(base64) returns (it throws InvalidCharacterError otherwise)
Decodable(segment) == segment # "!!"

\* decodeURIComponent(atob(base64)...): the text of the segment
DecodedText(segment) ==
    CASE segment \in Users -> "{\"sub\":\"" \o segment \o "\"}"
      [] segment = "hdr" -> "{\"alg\":\"RS256\"}"
      [] segment = "sig" -> "c2ln"
      [] OTHER -> "no"

\* JSON.parse(text) returns (it throws SyntaxError otherwise)
JsonParses(text) == Len(text) > 0 /\ SubSeq(text, 1, 1) = "{"

\* JSON.parse(jsonPayload)
ParsedClaims(segment) ==
    IF segment \in Users THEN [kind |-> "claims", sub |-> segment]
    ELSE [kind |-> "claims", sub |-> Null]

\* getIdTokenClaims() without its try/catch
IdTokenClaims_NoCatch(tok) ==
    IF tok = NoToken THEN [outcome |-> "returned", value |-> NoData]
    ELSE IF Len(tok) # 3 THEN [outcome |-> "returned", value |-> NoData]
    ELSE IF ~Decodable(tok[2]) \/ ~JsonParses(DecodedText(tok[2]))
    THEN [outcome |-> "threw", value |-> NoData]
    ELSE [outcome |-> "returned", value |-> ParsedClaims(tok[2])]

\* getIdTokenClaims(): what it returns for the held token
IdTokenClaims(tok) ==
    IF tok = NoToken THEN [outcome |-> "returned", value |-> NoData]
    ELSE IF Len(tok) # 3 THEN [outcome |-> "returned", value |-> NoData]
    ELSE IF ~Decodable(tok[2]) \/ ~JsonParses(DecodedText(tok[2]))
    THEN [outcome |-> "returned", value |-> NoData]
    ELSE [outcome |-> "returned", value |-> ParsedClaims(tok[2])]

\* getIdTokenClaims() answering from the stored profile instead of decoding
\* the idToken held now
getIdTokenClaims_FromProfile ==
    /\ Alive
    /\ last' = [op |-> "getIdTokenClaims", fr |-> FALSE, issued |-> FALSE,
                outcome |-> "returned",
                value |-> IF userSessionData.userDetails = Null THEN NoData
                          ELSE [kind |-> "claims", sub |-> userSessionData.userDetails],
                err |-> Null]
    /\ UNCHANGED <<dataCache, dataCalls, netCount, attempt>>
    /\ UNCHANGED authVars
    /\ UNCHANGED appVars

\* getIdTokenClaims() called by any importer of auth.js
getIdTokenClaims ==
    /\ Alive
    /\ last' = [op |-> "getIdTokenClaims", fr |-> FALSE, issued |-> FALSE,
                outcome |-> IdTokenClaims(getIdToken).outcome,
                value |-> IdTokenClaims(getIdToken).value, err |-> Null]
    /\ UNCHANGED <<dataCache, dataCalls, netCount, attempt>>
    /\ UNCHANGED authVars
    /\ UNCHANGED appVars

\* signOut() with the provider logout invoked before the session is cleared
signOut_LogoutFirst ==
    IF ~msalInstance
    THEN UNCHANGED <<userSessionData, redirect, logoutSeen, signedOut, detailCalls>>
    ELSE /\ userSessionData' = InitSession
         /\ signedOut' = TRUE
         /\ detailCalls' = { [c EXCEPT !.stale = TRUE] : c \in detailCalls }
         /\ IF providerAccount # Null
            THEN /\ logoutSeen' = <<userSessionData>>
                 /\ redirect' = IF redirect = "none" THEN "logout" ELSE redirect
            ELSE UNCHANGED <<logoutSeen, redirect>>

\* signOut(): the clear of the in-memory session, then the provider logout for
\* the first account. logout(...) returns a promise: its failure never reaches
\* signOut's caller. A getUserDetails call suspended at this moment is marked as
\* started before the sign-out.
signOut ==
    IF ~msalInstance
    THEN UNCHANGED <<userSessionData, redirect, logoutSeen, signedOut, detailCalls>>
    ELSE /\ userSessionData' = InitSession
         /\ signedOut' = TRUE
         /\ detailCalls' = { [c EXCEPT !.stale = TRUE] : c \in detailCalls }
         /\ IF providerAccount # Null
            THEN /\ logoutSeen' = <<userSessionData'>>
                 /\ redirect' = IF redirect = "none" THEN "logout" ELSE redirect
            ELSE UNCHANGED <<logoutSeen, redirect>>

\* signOut() called by any importer of auth.js
ApiSignOut ==
    /\ Alive
    /\ signOut
    /\ UNCHANGED <<msalInstance, providerAccount, loginCount, browserStorage>>
    /\ UNCHANGED dataVars
    /\ UNCHANGED appVars

\* signIn(): starts the redirect flow; no in-memory field changes
signIn ==
    /\ Alive
    /\ redirect' = IF msalInstance /\ redirect = "none" THEN "login" ELSE redirect
    /\ UNCHANGED <<msalInstance, providerAccount, userSessionData, detailCalls,
                   loginCount, signedOut, logoutSeen, browserStorage>>
    /\ UNCHANGED dataVars
    /\ UNCHANGED appVars

\* the navigation a loginRedirect / logout asked for takes place: the page is gone
RedirectNavigates ==
    /\ Alive
    /\ redirect # "none"
    /\ page' = "unloaded"
    /\ UNCHANGED <<APP_STATE, uiHandlers, ui>>
    /\ UNCHANGED authVars
    /\ UNCHANGED dataVars

\* the redirect is abandoned (the provider call rejects); a failed logout may or
\* may not have removed the account from the provider's cache already
RedirectFails ==
    /\ Alive
    /\ redirect # "none"
    /\ redirect' = "none"
    /\ providerAccount' \in
         IF redirect = "logout" THEN {providerAccount, Null} ELSE {providerAccount}
    /\ UNCHANGED <<msalInstance, userSessionData, detailCalls, loginCount, signedOut,
                   logoutSeen, browserStorage>>
    /\ UNCHANGED dataVars
    /\ UNCHANGED appVars

----------------------------------------------------------------------------
(* Coordinator: session state (app.js) *)

\* ui.showUnauthenticatedState(): its `elements` has no dataSection and no
\* userDataSection, so only the token section is hidden
showUnauthenticatedState(u) == [u EXCEPT !.tokenSection = FALSE]

\* ui.showAuthenticatedUser(user, tokenClaims)
showAuthenticatedUser(u) == [u EXCEPT !.tokenSection = TRUE, !.dataSection = TRUE]

\* idTokenClaims.roles: the roles the provider has given the token's subject
ClaimedRoles(claims) ==
    CASE claims.sub = "alice" -> <<"User">>
      [] claims.sub = "bob" -> <<"Admin">>
      [] OTHER -> << >>

\* role.toLowerCase()
ToLowerCase(role) ==
    CASE role = "Admin" -> "admin"
      [] role = "User" -> "user"
      [] OTHER -> role

\* the roles.some(...) test of updateAdminAccess
HasAdminRole(claims) ==
    \E i \in DOMAIN ClaimedRoles(claims) :
        ToLowerCase(ClaimedRoles(claims)[i]) \in {"admin", "superadmin"}

\* updateAdminAccess(idTokenClaims): the roles test is computed, then
\* showAdminSection is set to true for any claims; ui.toggleAdminSection
updateAdminAccess(u, claims) == [u EXCEPT !.adminSection = claims # NoData]

\* the listener of 'msalLoginSuccess' not calling updateUserState
updateUserState_NotCalled(instance, id, app) ==
    /\ APP_STATE' = app
    /\ ui' = ui
    /\ detailCalls' = detailCalls

\* updateUserState() up to its await of getUserDetails(): getUserDetails returns
\* null at once without an instance or an account (then the else-branch runs),
\* and otherwise suspends at acquireTokenSilent. app is APP_STATE at the call.
updateUserState(instance, id, app) ==
    IF ~instance \/ providerAccount' = Null
    THEN /\ APP_STATE' = [app EXCEPT !.authenticated = FALSE]
         /\ ui' = showUnauthenticatedState(ui)
         /\ detailCalls' = detailCalls
    ELSE /\ APP_STATE' = app
         /\ ui' = ui
         /\ detailCalls' = detailCalls \cup
              { [id |-> id, stage |-> "acquire", account |-> providerAccount',
                 stale |-> FALSE] }

\* initializeApp() going on to wire the buttons after initializeAuth failed
initializeApp_IgnoresFailure(msalLoaded) ==
    /\ page = "loading"
    /\ page' = "running"
    /\ providerAccount' = providerAccount
    /\ IF ~msalLoaded
       THEN /\ APP_STATE' = [APP_STATE EXCEPT !.initialized = FALSE]
            /\ uiHandlers' = TRUE
            /\ UNCHANGED <<msalInstance, detailCalls, ui>>
       ELSE /\ msalInstance' = TRUE
            /\ uiHandlers' = TRUE
            /\ updateUserState(TRUE, 0, [APP_STATE EXCEPT !.initialized = TRUE])
    /\ UNCHANGED <<redirect, userSessionData, loginCount, signedOut, logoutSeen,
                   browserStorage>>
    /\ UNCHANGED dataVars

\* initializeApp(), after ensureMsalLoaded: initializeAuth, initializeUI, the
\* msalLoginSuccess listener and checkExistingAuth
initializeApp(msalLoaded) ==
    /\ page = "loading"
    /\ page' = "running"
    /\ providerAccount' = providerAccount
    /\ IF ~msalLoaded
       THEN /\ APP_STATE' = [APP_STATE EXCEPT !.initialized = FALSE]
            /\ UNCHANGED <<msalInstance, uiHandlers, detailCalls, ui>>
       ELSE /\ msalInstance' = TRUE
            /\ uiHandlers' = TRUE
            /\ updateUserState(TRUE, 0, [APP_STATE EXCEPT !.initialized = TRUE])
    /\ UNCHANGED <<redirect, userSessionData, loginCount, signedOut, logoutSeen,
                   browserStorage>>
    /\ UNCHANGED dataVars

\* the window event 'msalLoginSuccess' for account u reaches the listener
\* initializeApp registered; u is now among the provider's accounts
LoginSuccessEvent(u) ==
    /\ Alive
    /\ uiHandlers
    /\ loginCount < MaxLogins
    /\ loginCount' = loginCount + 1
    /\ providerAccount' \in {u} \cup ({providerAccount} \ {Null})
    /\ updateUserState(msalInstance, loginCount + 1, APP_STATE)
    /\ UNCHANGED <<page, uiHandlers, msalInstance, redirect, userSessionData,
                   signedOut, logoutSeen, browserStorage>>
    /\ UNCHANGED dataVars

\* getUserDetails also writing the idToken to sessionStorage
acquireTokenSilentResolves_Persists(c) ==
    /\ Alive
    /\ c \in detailCalls
    /\ c.stage = "acquire"
    /\ userSessionData' = [userSessionData EXCEPT !.idToken = IdTokenOf(c.account),
                                                  !.accessToken = AccessTokenOf(c.account)]
    /\ browserStorage' = browserStorage \cup {IdTokenOf(c.account)}
    /\ detailCalls' = (detailCalls \ {c}) \cup {[c EXCEPT !.stage = "graph"]}
    /\ signedOut' = IF c.stale THEN signedOut ELSE FALSE
    /\ UNCHANGED <<msalInstance, providerAccount, redirect, loginCount, logoutSeen>>
    /\ UNCHANGED dataVars
    /\ UNCHANGED appVars

\* getUserDetails: acquireTokenSilent resolves; the tokens are stored and the
\* profile request is issued
acquireTokenSilentResolves(c) ==
    /\ Alive
    /\ c \in detailCalls
    /\ c.stage = "acquire"
    /\ userSessionData' = [userSessionData EXCEPT !.idToken = IdTokenOf(c.account),
                                                  !.accessToken = AccessTokenOf(c.account)]
    /\ detailCalls' = (detailCalls \ {c}) \cup {[c EXCEPT !.stage = "graph"]}
    /\ signedOut' = IF c.stale THEN signedOut ELSE FALSE
    /\ UNCHANGED <<msalInstance, providerAccount, redirect, loginCount, logoutSeen,
                   browserStorage>>
    /\ UNCHANGED dataVars
    /\ UNCHANGED appVars

\* getUserDetails clearing the session when it fails
getUserDetailsFails_ClearsSession(c) ==
    /\ Alive
    /\ c \in detailCalls
    /\ detailCalls' = detailCalls \ {c}
    /\ userSessionData' = InitSession
    /\ APP_STATE' = [APP_STATE EXCEPT !.authenticated = FALSE]
    /\ ui' = showUnauthenticatedState(ui)
    /\ UNCHANGED <<page, uiHandlers, msalInstance, providerAccount, redirect,
                   loginCount, signedOut, logoutSeen, browserStorage>>
    /\ UNCHANGED dataVars

\* getUserDetails returns null (acquireTokenSilent or the profile fetch rejects,
\* or the profile response is not ok); updateUserState, when it is the caller,
\* takes its else-branch
getUserDetailsFails(c) ==
    /\ Alive
    /\ c \in detailCalls
    /\ detailCalls' = detailCalls \ {c}
    /\ IF c.id = DirectCall
       THEN UNCHANGED <<APP_STATE, ui>>
       ELSE /\ APP_STATE' = [APP_STATE EXCEPT !.authenticated = FALSE]
            /\ ui' = showUnauthenticatedState(ui)
    /\ UNCHANGED <<page, uiHandlers, msalInstance, providerAccount, redirect,
                   userSessionData, loginCount, signedOut, logoutSeen, browserStorage>>
    /\ UNCHANGED dataVars

\* getUserDetails storing the tokens again when the profile response arrives
getUserDetailsSucceeds_StoresTokens(c) ==
    /\ Alive
    /\ c \in detailCalls
    /\ c.stage = "graph"
    /\ detailCalls' = detailCalls \ {c}
    /\ userSessionData' = [userDetails |-> c.account, idToken |-> IdTokenOf(c.account),
                           accessToken |-> AccessTokenOf(c.account)]
    /\ IF c.id = DirectCall
       THEN UNCHANGED <<APP_STATE, ui>>
       ELSE /\ APP_STATE' = [APP_STATE EXCEPT !.authenticated = TRUE]
            /\ ui' = updateAdminAccess(showAuthenticatedUser(ui),
                                       IdTokenClaims(IdTokenOf(c.account)).value)
    /\ UNCHANGED <<page, uiHandlers, msalInstance, providerAccount, redirect,
                   loginCount, signedOut, logoutSeen, browserStorage>>
    /\ UNCHANGED dataVars

\* getUserDetails: the profile response is ok; userDetails is stored and
\* updateUserState, when it is the caller, marks the application authenticated
getUserDetailsSucceeds(c) ==
    /\ Alive
    /\ c \in detailCalls
    /\ c.stage = "graph"
    /\ detailCalls' = detailCalls \ {c}
    /\ userSessionData' = [userSessionData EXCEPT !.userDetails = c.account]
    /\ IF c.id = DirectCall
       THEN UNCHANGED <<APP_STATE, ui>>
       ELSE /\ APP_STATE' = [APP_STATE EXCEPT !.authenticated = TRUE]
            /\ ui' = updateAdminAccess(showAuthenticatedUser(ui),
                                       IdTokenClaims(getIdToken).value)
    /\ UNCHANGED <<page, uiHandlers, msalInstance, providerAccount, redirect,
                   loginCount, signedOut, logoutSeen, browserStorage>>
    /\ UNCHANGED dataVars

\* handleSignOut(): the sign-out button's callback
handleSignOut ==
    /\ Alive
    /\ uiHandlers
    /\ IF ~APP_STATE.initialized
       THEN UNCHANGED <<userSessionData, redirect, logoutSeen, signedOut, detailCalls,
                        APP_STATE, ui>>
       ELSE /\ signOut
            /\ APP_STATE' = [APP_STATE EXCEPT !.authenticated = FALSE]
            /\ ui' = showUnauthenticatedState(ui)
    /\ UNCHANGED <<page, uiHandlers, msalInstance, providerAccount, loginCount,
                   browserStorage>>
    /\ UNCHANGED dataVars

\* a sign-in completes, as the specification describes the Identity Session:
\* the provider yields an identity token and an account for u, the session
\* stores both and raises the session-established notification. The listener
\* initializeApp registered runs on it, up to its await.
signInSucceeds(u) ==
    /\ Alive
    /\ uiHandlers
    /\ loginCount < MaxLogins
    /\ loginCount' = loginCount + 1
    /\ providerAccount' = u
    /\ userSessionData' = [userSessionData EXCEPT !.idToken = IdTokenOf(u)]
    /\ signedOut' = FALSE
    /\ updateUserState(msalInstance, loginCount + 1, APP_STATE)
    /\ UNCHANGED <<page, uiHandlers, msalInstance, redirect, logoutSeen, browserStorage>>
    /\ UNCHANGED dataVars

----------------------------------------------------------------------------
(* Authenticated Data Client (js/dataService.js) *)

\* the cache test with the cache never consulted
CacheHit_Never(forceRefresh, cached) == FALSE

\* the cache test with forceRefresh ignored
CacheHit_IgnoreForce(forceRefresh, cached) == cached # NoData

\* `!forceRefresh && cached !== null`
CacheHit(forceRefresh, cached) == ~forceRefresh /\ cached # NoData

\* the token test never failing
TokenMissing_Never(idToken) == FALSE

\* `!idToken`
TokenMissing(idToken) == idToken = NoToken

\* the record of a call that has just returned or thrown
Completed(op, fr, issued, outcome, value, err) ==
    [op |-> op, fr |-> fr, issued |-> issued, outcome |-> outcome, value |-> value,
     err |-> err]

\* the request record of a call whose fetch carries no Authorization credential
Pending_NoBearer(op, fr, req, token, body) ==
    [op |-> op, fr |-> fr, req |-> req, token |-> NoToken, body |-> body]

\* a call suspended at its await fetch(...): the request carries `token`
Pending(op, fr, req, token, body) ==
    [op |-> op, fr |-> fr, req |-> req, token |-> token, body |-> body]

\* the token check failing: status and error are set, the call throws
Unauthenticated(cache) == [cache EXCEPT !.status = STATUS.ERROR, !.error = ErrNoToken]

\* the catch block also dropping what an earlier success had cached
FetchFailed_DropsCache(cache, message) ==
    [cache EXCEPT !.status = STATUS.ERROR,
                  !.error = IF message = "" THEN ErrUnknown ELSE message,
                  !.data = NoData, !.userdata = NoData, !.lastFetched = NoTime]

\* the catch block recording the message but not the status
FetchFailed_LeavesLoading(cache, message) ==
    [cache EXCEPT !.error = IF message = "" THEN ErrUnknown ELSE message]

\* the catch block (and the !response.ok branch before it)
FetchFailed(cache, message) ==
    [cache EXCEPT !.status = STATUS.ERROR,
                  !.error = IF message = "" THEN ErrUnknown ELSE message]

\* getData's cache update keeping the payload of the request issued later
StoreData_NewestRequestWins(cache, data, t) ==
    IF cache.data # NoData /\ cache.data.req > data.req
    THEN [cache EXCEPT !.status = STATUS.SUCCESS, !.error = Null]
    ELSE [cache EXCEPT !.status = STATUS.SUCCESS, !.data = data, !.lastFetched = t,
                       !.error = Null]

\* getData's cache update after a parsed 2xx response
StoreData(cache, data, t) ==
    [cache EXCEPT !.status = STATUS.SUCCESS, !.data = data, !.lastFetched = t,
                  !.error = Null]

\* getUserData's cache update written to the field getData reads
StoreUserData_SharedField(cache, data, t) ==
    [cache EXCEPT !.status = STATUS.SUCCESS, !.data = data, !.lastFetched = t,
                  !.error = Null]

\* getUserData's cache update after a parsed 2xx response
StoreUserData(cache, data, t) ==
    [cache EXCEPT !.status = STATUS.SUCCESS, !.userdata = data, !.lastFetched = t,
                  !.error = Null]

\* error.message of the exception a failed GET ends with
FetchError(kind, msg) ==
    CASE kind = "http" -> ErrApiFailed
      [] kind = "badjson" -> ErrBadJson
      [] OTHER -> msg

\* the history of the newest attempt when request c ends: c may be an older one
Ended(att, c, ok) ==
    IF att.req # c.req THEN att
    ELSE [att EXCEPT !.outcome = IF ok THEN "ok" ELSE "failed"]

\* getData(forceRefresh), up to its return, throw or await fetch(...)
getData(forceRefresh) ==
    /\ Alive
    /\ IF CacheHit(forceRefresh, dataCache.data)
       THEN /\ last' = Completed("getData", forceRefresh, FALSE, "returned",
                                 dataCache.data, Null)
            /\ UNCHANGED <<dataCache, dataCalls, netCount, attempt>>
       ELSE IF TokenMissing(getIdToken)
       THEN /\ dataCache' = Unauthenticated(dataCache)
            /\ last' = Completed("getData", forceRefresh, FALSE, "threw", NoData,
                                 ErrNoToken)
            /\ attempt' = Refused
            /\ UNCHANGED <<dataCalls, netCount>>
       ELSE /\ netCount < MaxRequests
            /\ netCount' = netCount + 1
            /\ dataCache' = [dataCache EXCEPT !.status = STATUS.LOADING]
            /\ dataCalls' = dataCalls \cup
                 {Pending("getData", forceRefresh, netCount + 1, getIdToken, NoData)}
            /\ attempt' = [req |-> netCount + 1, outcome |-> "pending"]
            /\ UNCHANGED last
    /\ UNCHANGED authVars
    /\ UNCHANGED appVars

\* getData resumed: the response (or the rejection) and its body have arrived
getDataResumes(c, kind, msg) ==
    /\ Alive
    /\ c \in dataCalls
    /\ c.op = "getData"
    /\ dataCalls' = dataCalls \ {c}
    /\ attempt' = Ended(attempt, c, kind = "ok")
    /\ IF kind = "ok"
       THEN /\ dataCache' = StoreData(dataCache, PrimaryPayload(c.token, c.req), Now)
            /\ last' = Completed("getData", c.fr, TRUE, "returned",
                                 PrimaryPayload(c.token, c.req), Null)
       ELSE /\ dataCache' = FetchFailed(dataCache, FetchError(kind, msg))
            /\ last' = Completed("getData", c.fr, TRUE, "threw", NoData,
                                 FetchError(kind, msg))
    /\ UNCHANGED <<netCount>>
    /\ UNCHANGED authVars
    /\ UNCHANGED appVars

\* getUserData(forceRefresh), up to its return, throw or await fetch(...)
getUserData(forceRefresh) ==
    /\ Alive
    /\ IF CacheHit(forceRefresh, dataCache.userdata)
       THEN /\ last' = Completed("getUserData", forceRefresh, FALSE, "returned",
                                 dataCache.userdata, Null)
            /\ UNCHANGED <<dataCache, dataCalls, netCount, attempt>>
       ELSE IF TokenMissing(getIdToken)
       THEN /\ dataCache' = Unauthenticated(dataCache)
            /\ last' = Completed("getUserData", forceRefresh, FALSE, "threw", NoData,
                                 ErrNoToken)
            /\ attempt' = Refused
            /\ UNCHANGED <<dataCalls, netCount>>
       ELSE /\ netCount < MaxRequests
            /\ netCount' = netCount + 1
            /\ dataCache' = [dataCache EXCEPT !.status = STATUS.LOADING]
            /\ dataCalls' = dataCalls \cup
                 {Pending("getUserData", forceRefresh, netCount + 1, getIdToken, NoData)}
            /\ attempt' = [req |-> netCount + 1, outcome |-> "pending"]
            /\ UNCHANGED last
    /\ UNCHANGED authVars
    /\ UNCHANGED appVars

\* getUserData resumed: the response (or the rejection) and its body have arrived
getUserDataResumes(c, kind, msg) ==
    /\ Alive
    /\ c \in dataCalls
    /\ c.op = "getUserData"
    /\ dataCalls' = dataCalls \ {c}
    /\ attempt' = Ended(attempt, c, kind = "ok")
    /\ IF kind = "ok"
       THEN /\ dataCache' = StoreUserData(dataCache, DeltaPayload(c.token, c.req), Now)
            /\ last' = Completed("getUserData", c.fr, TRUE, "returned",
                                 DeltaPayload(c.token, c.req), Null)
       ELSE /\ dataCache' = FetchFailed(dataCache, FetchError(kind, msg))
            /\ last' = Completed("getUserData", c.fr, TRUE, "threw", NoData,
                                 FetchError(kind, msg))
    /\ UNCHANGED <<netCount>>
    /\ UNCHANGED authVars
    /\ UNCHANGED appVars

\* the stamp leaving a lastModified of the caller's in place
Stamp_KeepCallers(data, t) ==
    IF data.lastModified # NoTime THEN data ELSE [data EXCEPT !.lastModified = t]

\* `data.lastModified = new Date().toISOString()`
Stamp(data, t) == [data EXCEPT !.lastModified = t]

\* saveUserData(data) with the cache left alone until the server has answered
saveUserData_NoOptimisticCache(data) ==
    /\ Alive
    /\ LET given == [data EXCEPT !.by = TokenUser(getIdToken)] IN
       IF TokenMissing(getIdToken)
       THEN /\ dataCache' = Unauthenticated(dataCache)
            /\ last' = Completed("saveUserData", FALSE, FALSE, "threw", given,
                                 ErrNoToken)
            /\ attempt' = Refused
            /\ UNCHANGED <<dataCalls, netCount>>
       ELSE /\ netCount < MaxRequests
            /\ netCount' = netCount + 1
            /\ dataCache' = dataCache
            /\ dataCalls' = dataCalls \cup
                 {Pending("saveUserData", FALSE, netCount + 1, getIdToken,
                          Stamp(given, Now))}
            /\ UNCHANGED <<last, attempt>>
    /\ UNCHANGED authVars
    /\ UNCHANGED appVars

\* saveUserData(data) writing the cache only after the token check has passed
saveUserData_CachesAfterTokenCheck(data) ==
    /\ Alive
    /\ LET given == [data EXCEPT !.by = TokenUser(getIdToken)] IN
       IF TokenMissing(getIdToken)
       THEN /\ dataCache' = Unauthenticated(dataCache)
            /\ last' = Completed("saveUserData", FALSE, FALSE, "threw", given,
                                 ErrNoToken)
            /\ attempt' = Refused
            /\ UNCHANGED <<dataCalls, netCount>>
       ELSE /\ netCount < MaxRequests
            /\ netCount' = netCount + 1
            /\ dataCache' = [dataCache EXCEPT !.userdata = Stamp(given, Now)]
            /\ dataCalls' = dataCalls \cup
                 {Pending("saveUserData", FALSE, netCount + 1, getIdToken,
                          Stamp(given, Now))}
            /\ UNCHANGED <<last, attempt>>
    /\ UNCHANGED authVars
    /\ UNCHANGED appVars

\* saveUserData(data), up to its throw or await fetch(...). The cache holds the
\* caller's object itself, so the stamp written after the token check shows in
\* the cache too. `by` records whose token was held at the call.
\* The record of a save that threw keeps the payload of the call as its value.
saveUserData(data) ==
    /\ Alive
    /\ LET given == [data EXCEPT !.by = TokenUser(getIdToken)] IN
       IF TokenMissing(getIdToken)
       THEN /\ dataCache' = Unauthenticated([dataCache EXCEPT !.userdata = given])
            /\ last' = Completed("saveUserData", FALSE, FALSE, "threw", given,
                                 ErrNoToken)
            /\ attempt' = Refused
            /\ UNCHANGED <<dataCalls, netCount>>
       ELSE /\ netCount < MaxRequests
            /\ netCount' = netCount + 1
            /\ dataCache' = [dataCache EXCEPT !.userdata = Stamp(given, Now)]
            /\ dataCalls' = dataCalls \cup
                 {Pending("saveUserData", FALSE, netCount + 1, getIdToken,
                          Stamp(given, Now))}
            /\ UNCHANGED <<last, attempt>>
    /\ UNCHANGED authVars
    /\ UNCHANGED appVars

ErrSaveFailed == "Failed to save data"

\* what can come back for the PUT: a response with its status, whether its
\* content-type header includes 'application/json', and its body text; or, with
\* status "rejected", a fetch that rejects with the message in `body`.
\* "{}" is a body that parses as JSON; "" and "saved" are bodies that do not.
SaveResponses ==
    { [status |-> "200", jsonType |-> TRUE, body |-> b] : b \in {"{}", "", "saved"} } \cup
    { [status |-> "200", jsonType |-> FALSE, body |-> b] : b \in {"", "saved"} } \cup
    { [status |-> "204", jsonType |-> j, body |-> ""] : j \in BOOLEAN } \cup
    { [status |-> "500", jsonType |-> FALSE, body |-> "quota exceeded"] } \cup
    { [status |-> "rejected", jsonType |-> FALSE, body |-> ErrFailedToFetch] }

\* message.includes(text)
Contains(message, text) ==
    \E i \in 1..(Len(message) + 1 - Len(text)) :
        SubSeq(message, i, i + Len(text) - 1) = text

\* response.ok
ResponseOk(r) == r.status \in {"200", "204"}

\* response.json() resolves
ParsesAsJson(body) == body = "{}"

\* the Error thrown in the !response.ok branch, without the response body
HttpSaveError_NoDetail(r) == ErrSaveFailed \o ": " \o r.status \o " "

\* the Error thrown in the !response.ok branch (statusText is empty)
HttpSaveError(r) ==
    ErrSaveFailed \o ": " \o r.status \o " " \o ". Detail: " \o r.body

\* error.message of what the try block throws for response r ("" when it
\* runs to its return)
SaveFailure(r) ==
    IF r.status = "rejected" THEN r.body
    ELSE IF ~ResponseOk(r) THEN HttpSaveError(r)
    ELSE IF r.jsonType /\ ~ParsesAsJson(r.body) THEN ErrBadJson
    ELSE ""

\* the try block runs to `return { success: true, ... }`
SaveSucceeds(r) == SaveFailure(r) = ""

\* saveUserData resumed with r. The catch block rethrows whatever the try block
\* threw as 'Failed to save data: <message>'. The record of the completed call
\* keeps the payload that was submitted as its value.
saveUserDataResumes(c, r) ==
    /\ Alive
    /\ c \in dataCalls
    /\ c.op = "saveUserData"
    /\ dataCalls' = dataCalls \ {c}
    /\ last' = IF SaveSucceeds(r)
               THEN Completed("saveUserData", FALSE, TRUE, "returned", c.body, Null)
               ELSE Completed("saveUserData", FALSE, TRUE, "threw", c.body,
                              ErrSaveFailed \o ": " \o SaveFailure(r))
    /\ UNCHANGED <<dataCache, netCount, attempt>>
    /\ UNCHANGED authVars
    /\ UNCHANGED appVars

\* clearDataCache() leaving the last error message in place
ClearedCache_KeepsError(cache) ==
    [cache EXCEPT !.status = STATUS.IDLE, !.data = NoData, !.lastFetched = NoTime]

\* clearDataCache()
ClearedCache(cache) ==
    [cache EXCEPT !.status = STATUS.IDLE, !.data = NoData, !.error = Null,
                  !.lastFetched = NoTime]

clearDataCache ==
    /\ Alive
    /\ dataCache' = ClearedCache(dataCache)
    /\ last' = Completed("clearDataCache", FALSE, FALSE, "returned", NoData, Null)
    /\ attempt' = NoAttempt
    /\ UNCHANGED <<dataCalls, netCount>>
    /\ UNCHANGED authVars
    /\ UNCHANGED appVars

----------------------------------------------------------------------------
(* Identity Session: the exported functions called by an importer of auth.js *)

\* what getAccount() returns
AccountValue(account) ==
    IF account = Null THEN NoData ELSE [kind |-> "account", name |-> account]

\* getAccount(); `issued` tells whether msalInstance.getAllAccounts was called
ApiGetAccount ==
    /\ Alive
    /\ last' = Completed("getAccount", FALSE, msalInstance, "returned",
                         AccountValue(getAccount), Null)
    /\ UNCHANGED <<dataCache, dataCalls, netCount, attempt>>
    /\ UNCHANGED authVars
    /\ UNCHANGED appVars

\* getUserDetails() skipping its !msalInstance test
ApiGetUserDetails_NoInstanceCheck ==
    /\ Alive
    /\ IF providerAccount = Null
       THEN /\ last' = Completed("getUserDetails", FALSE, FALSE, "returned", NoData, Null)
            /\ UNCHANGED detailCalls
       ELSE /\ detailCalls' = detailCalls \cup
                 { [id |-> DirectCall, stage |-> "acquire", account |-> providerAccount,
                    stale |-> FALSE] }
            /\ UNCHANGED last
    /\ UNCHANGED <<msalInstance, providerAccount, redirect, userSessionData, loginCount,
                   signedOut, logoutSeen, browserStorage>>
    /\ UNCHANGED <<dataCache, dataCalls, netCount, attempt>>
    /\ UNCHANGED appVars

\* getUserDetails(), up to its return of null or its await of
\* acquireTokenSilent. Suspended calls that cannot be told apart are kept once.
ApiGetUserDetails ==
    /\ Alive
    /\ IF ~msalInstance \/ getAccount = Null
       THEN /\ last' = Completed("getUserDetails", FALSE, FALSE, "returned", NoData, Null)
            /\ UNCHANGED detailCalls
       ELSE /\ detailCalls' = detailCalls \cup
                 { [id |-> DirectCall, stage |-> "acquire", account |-> getAccount,
                    stale |-> FALSE] }
            /\ UNCHANGED last
    /\ UNCHANGED <<msalInstance, providerAccount, redirect, userSessionData, loginCount,
                   signedOut, logoutSeen, browserStorage>>
    /\ UNCHANGED <<dataCache, dataCalls, netCount, attempt>>
    /\ UNCHANGED appVars

\* what msalInstance.handleRedirectPromise() can yield: null, or the response
\* of a redirect that has just come back; a rejection is caught and gives null
RedirectResults == {NoData, [kind |-> "redirectResponse"]}

\* handleRedirectResponse(): no field of the session is read or written on
\* either side of its await, so the call is one step; `issued` tells whether
\* handleRedirectPromise was called
ApiHandleRedirectResponse ==
    /\ Alive
    /\ \E result \in RedirectResults :
          last' = Completed("handleRedirectResponse", FALSE, msalInstance, "returned",
                            IF msalInstance THEN result ELSE NoData, Null)
    /\ UNCHANGED <<dataCache, dataCalls, netCount, attempt>>
    /\ UNCHANGED authVars
    /\ UNCHANGED appVars

----------------------------------------------------------------------------
(* Coordinator: the data and admin buttons (app.js) *)

\* ui.showDataStatus(message, statusClass)
showDataStatus(u, message, class) ==
    [u EXCEPT !.dataStatus = [text |-> message, class |-> class]]

\* ui.showDataError(errorMessage)
showDataError(u, message) == showDataStatus(u, "Error: " \o message, "error")

\* ui.showDeltaStatus(message, statusClass)
showDeltaStatus(u, message, class) ==
    [u EXCEPT !.deltaStatus = [text |-> message, class |-> class]]

\* ui.showDeltaError(errorMessage)
showDeltaError(u, message) == showDeltaStatus(u, "Error: " \o message, "error")

\* ui.displayDeltaFilesList(fileList, handleViewDeltaFile)
displayDeltaFilesList(u, fileList) ==
    [u EXCEPT !.deltaList = [shown |-> TRUE, files |-> fileList]]

ErrSaveNeedsAuth == "You must be authenticated to save user data"
ErrAdminNeedsAuth == "You must be authenticated to access admin functions"
ErrInvalidJson == "Invalid JSON data. Please ensure data is in correct format."
MsgSaved == "User data saved successfully"
MsgNoDeltaFiles == "No delta files found"
ErrDeltaListFailed == "Failed to fetch delta file list"

\* what the user data textarea can hold when Save is clicked: two documents
\* and two texts that are not JSON
TextareaValues == {"{}", "{\"lastModified\":1}", "", "{name"}

\* JSON.parse(userDataText) returning whatever the textarea holds
TextParses_Anything(text) == TRUE

\* JSON.parse(userDataText) returns
TextParses(text) == text \in {"{}", "{\"lastModified\":1}"}

\* JSON.parse(userDataText)
ParsedText(text) ==
    [kind |-> "caller", by |-> Null, req |-> 0,
     lastModified |-> IF text = "{\"lastModified\":1}" THEN 1 ELSE NoTime]

\* handleSaveUserData(), up to its return or its await of saveUserData(userData):
\* the guard, the parse of the textarea, and saveUserData up to its throw or
\* its await fetch(...)
handleSaveUserData(text) ==
    /\ Alive
    /\ uiHandlers
    /\ IF ~APP_STATE.authenticated
       THEN /\ ui' = showDataError(ui, ErrSaveNeedsAuth)
            /\ UNCHANGED dataVars
       ELSE IF ~TextParses(text)
       THEN /\ ui' = showDataError(ui, ErrInvalidJson)
            /\ UNCHANGED dataVars
       ELSE LET given == [ParsedText(text) EXCEPT !.by = TokenUser(getIdToken)] IN
            IF TokenMissing(getIdToken)
            THEN /\ dataCache' = Unauthenticated([dataCache EXCEPT !.userdata = given])
                 /\ last' = Completed("saveUserData", FALSE, FALSE, "threw", given,
                                      ErrNoToken)
                 /\ attempt' = Refused
                 /\ ui' = showDataError(ui, ErrNoToken)
                 /\ UNCHANGED <<dataCalls, netCount>>
            ELSE /\ netCount < MaxRequests
                 /\ netCount' = netCount + 1
                 /\ dataCache' = [dataCache EXCEPT !.userdata = Stamp(given, Now)]
                 /\ dataCalls' = dataCalls \cup
                      {Pending("handleSaveUserData", FALSE, netCount + 1, getIdToken,
                               Stamp(given, Now))}
                 /\ ui' = ui
                 /\ UNCHANGED <<last, attempt>>
    /\ UNCHANGED <<page, APP_STATE, uiHandlers>>
    /\ UNCHANGED authVars

\* handleSaveUserData resumed: saveUserData returns or throws for response r,
\* and the handler shows the success message or the error's message
handleSaveUserDataResumes(c, r) ==
    /\ Alive
    /\ c \in dataCalls
    /\ c.op = "handleSaveUserData"
    /\ dataCalls' = dataCalls \ {c}
    /\ IF SaveSucceeds(r)
       THEN /\ last' = Completed("saveUserData", FALSE, TRUE, "returned", c.body, Null)
            /\ ui' = showDataStatus(ui, MsgSaved, "success")
       ELSE /\ last' = Completed("saveUserData", FALSE, TRUE, "threw", c.body,
                                 ErrSaveFailed \o ": " \o SaveFailure(r))
            /\ ui' = showDataError(ui, ErrSaveFailed \o ": " \o SaveFailure(r))
    /\ UNCHANGED <<dataCache, netCount, attempt>>
    /\ UNCHANGED <<page, APP_STATE, uiHandlers>>
    /\ UNCHANGED authVars

ErrFetchNeedsAuth == "You must be authenticated to fetch data"
ErrFetchUserNeedsAuth == "You must be authenticated to fetch user data"
ErrFetchFailed == "Failed to fetch data"
ErrFetchUserFailed == "Failed to fetch user data"
MsgDataFetched == "Data fetched successfully"
MsgUserDataFetched == "User Data fetched successfully"

\* ui.displayData(data): the data is shown and the status line says so
displayData(u, data) ==
    IF data = NoData THEN u ELSE showDataStatus(u, MsgDataFetched, "success")

\* ui.displayUserData(data)
displayUserData(u, data) ==
    IF data = NoData THEN u ELSE showDataStatus(u, MsgUserDataFetched, "success")

\* `error.message || fallback`
MessageOr(message, fallback) == IF message = "" THEN fallback ELSE message

\* handleFetchData() asking getData for a refresh on every click
handleFetchData_ForcesRefresh ==
    /\ Alive
    /\ uiHandlers
    /\ IF ~APP_STATE.authenticated
       THEN /\ ui' = showDataError(ui, ErrFetchNeedsAuth)
            /\ UNCHANGED dataVars
       ELSE IF CacheHit(TRUE, dataCache.data)
       THEN /\ last' = Completed("getData", TRUE, FALSE, "returned",
                                 dataCache.data, Null)
            /\ ui' = displayData(ui, dataCache.data)
            /\ UNCHANGED <<dataCache, dataCalls, netCount, attempt>>
       ELSE IF TokenMissing(getIdToken)
       THEN /\ dataCache' = Unauthenticated(dataCache)
            /\ last' = Completed("getData", TRUE, FALSE, "threw", NoData,
                                 ErrNoToken)
            /\ attempt' = Refused
            /\ ui' = showDataError(ui, ErrNoToken)
            /\ UNCHANGED <<dataCalls, netCount>>
       ELSE /\ netCount < MaxRequests
            /\ netCount' = netCount + 1
            /\ dataCache' = [dataCache EXCEPT !.status = STATUS.LOADING]
            /\ dataCalls' = dataCalls \cup
                 {Pending("handleFetchData", TRUE, netCount + 1, getIdToken,
                          NoData)}
            /\ attempt' = [req |-> netCount + 1, outcome |-> "pending"]
            /\ UNCHANGED <<last, ui>>
    /\ UNCHANGED <<page, APP_STATE, uiHandlers>>
    /\ UNCHANGED authVars

\* handleFetchData(): the Fetch Data button's callback, up to its return or the
\* await fetch(...) inside getData(), which is called without an argument
\* (forceRefresh = false). A cached result is awaited and displayed before any
\* other task runs.
handleFetchData ==
    /\ Alive
    /\ uiHandlers
    /\ IF ~APP_STATE.authenticated
       THEN /\ ui' = showDataError(ui, ErrFetchNeedsAuth)
            /\ UNCHANGED dataVars
       ELSE IF CacheHit(FALSE, dataCache.data)
       THEN /\ last' = Completed("getData", FALSE, FALSE, "returned",
                                 dataCache.data, Null)
            /\ ui' = displayData(ui, dataCache.data)
            /\ UNCHANGED <<dataCache, dataCalls, netCount, attempt>>
       ELSE IF TokenMissing(getIdToken)
       THEN /\ dataCache' = Unauthenticated(dataCache)
            /\ last' = Completed("getData", FALSE, FALSE, "threw", NoData,
                                 ErrNoToken)
            /\ attempt' = Refused
            /\ ui' = showDataError(ui, ErrNoToken)
            /\ UNCHANGED <<dataCalls, netCount>>
       ELSE /\ netCount < MaxRequests
            /\ netCount' = netCount + 1
            /\ dataCache' = [dataCache EXCEPT !.status = STATUS.LOADING]
            /\ dataCalls' = dataCalls \cup
                 {Pending("handleFetchData", FALSE, netCount + 1, getIdToken,
                          NoData)}
            /\ attempt' = [req |-> netCount + 1, outcome |-> "pending"]
            /\ UNCHANGED <<last, ui>>
    /\ UNCHANGED <<page, APP_STATE, uiHandlers>>
    /\ UNCHANGED authVars

\* handleFetchData() resumed with the outcome of getData's request
handleFetchDataResumes(c, kind, msg) ==
    /\ Alive
    /\ c \in dataCalls
    /\ c.op = "handleFetchData"
    /\ dataCalls' = dataCalls \ {c}
    /\ attempt' = Ended(attempt, c, kind = "ok")
    /\ IF kind = "ok"
       THEN /\ dataCache' = StoreData(dataCache, PrimaryPayload(c.token, c.req), Now)
            /\ last' = Completed("getData", c.fr, TRUE, "returned",
                                 PrimaryPayload(c.token, c.req), Null)
            /\ ui' = displayData(ui, PrimaryPayload(c.token, c.req))
       ELSE /\ dataCache' = FetchFailed(dataCache, FetchError(kind, msg))
            /\ last' = Completed("getData", c.fr, TRUE, "threw", NoData,
                                 FetchError(kind, msg))
            /\ ui' = showDataError(ui, MessageOr(FetchError(kind, msg), ErrFetchFailed))
    /\ UNCHANGED <<netCount>>
    /\ UNCHANGED <<page, APP_STATE, uiHandlers>>
    /\ UNCHANGED authVars

\* handleFetchUserData(): the Fetch User Data button's callback, up to its
\* return or the await fetch(...) inside getUserData()
handleFetchUserData ==
    /\ Alive
    /\ uiHandlers
    /\ IF ~APP_STATE.authenticated
       THEN /\ ui' = showDataError(ui, ErrFetchUserNeedsAuth)
            /\ UNCHANGED dataVars
       ELSE IF CacheHit(FALSE, dataCache.userdata)
       THEN /\ last' = Completed("getUserData", FALSE, FALSE, "returned",
                                 dataCache.userdata, Null)
            /\ ui' = displayUserData(ui, dataCache.userdata)
            /\ UNCHANGED <<dataCache, dataCalls, netCount, attempt>>
       ELSE IF TokenMissing(getIdToken)
       THEN /\ dataCache' = Unauthenticated(dataCache)
            /\ last' = Completed("getUserData", FALSE, FALSE, "threw", NoData,
                                 ErrNoToken)
            /\ attempt' = Refused
            /\ ui' = showDataError(ui, ErrNoToken)
            /\ UNCHANGED <<dataCalls, netCount>>
       ELSE /\ netCount < MaxRequests
            /\ netCount' = netCount + 1
            /\ dataCache' = [dataCache EXCEPT !.status = STATUS.LOADING]
            /\ dataCalls' = dataCalls \cup
                 {Pending("handleFetchUserData", FALSE, netCount + 1, getIdToken,
                          NoData)}
            /\ attempt' = [req |-> netCount + 1, outcome |-> "pending"]
            /\ UNCHANGED <<last, ui>>
    /\ UNCHANGED <<page, APP_STATE, uiHandlers>>
    /\ UNCHANGED authVars

\* handleFetchUserData() resumed with the outcome of getUserData's request
handleFetchUserDataResumes(c, kind, msg) ==
    /\ Alive
    /\ c \in dataCalls
    /\ c.op = "handleFetchUserData"
    /\ dataCalls' = dataCalls \ {c}
    /\ attempt' = Ended(attempt, c, kind = "ok")
    /\ IF kind = "ok"
       THEN /\ dataCache' = StoreUserData(dataCache, DeltaPayload(c.token, c.req), Now)
            /\ last' = Completed("getUserData", c.fr, TRUE, "returned",
                                 DeltaPayload(c.token, c.req), Null)
            /\ ui' = displayUserData(ui, DeltaPayload(c.token, c.req))
       ELSE /\ dataCache' = FetchFailed(dataCache, FetchError(kind, msg))
            /\ last' = Completed("getUserData", c.fr, TRUE, "threw", NoData,
                                 FetchError(kind, msg))
            /\ ui' = showDataError(ui, MessageOr(FetchError(kind, msg),
                                                 ErrFetchUserFailed))
    /\ UNCHANGED <<netCount>>
    /\ UNCHANGED <<page, APP_STATE, uiHandlers>>
    /\ UNCHANGED authVars

\* the JSON arrays the admin endpoint answers a listing with
FileLists == { << >>, <<"deltas/a.json">>, <<"deltas/a.json", "deltas/b.json">> }

\* what can come back for the admin listing request
AdminResponses ==
    { [kind |-> "ok", files |-> list] : list \in FileLists } \cup
    { [kind |-> "http", files |-> << >>], [kind |-> "reject", files |-> << >>] }

\* the result of listAdminFiles(), as the record of a completed call keeps it
FileListing(list) == [kind |-> "files", files |-> list]

\* `Found ${fileList.length} delta files`
MsgFound(list) == "Found " \o ToString(Len(list)) \o " delta files"

\* handleFetchDeltaList reporting an empty listing as an error
DeltaListReport_EmptyIsError(u, list) ==
    IF Len(list) = 0
    THEN showDeltaError(displayDeltaFilesList(u, list), ErrDeltaListFailed)
    ELSE showDeltaStatus(displayDeltaFilesList(u, list), MsgFound(list), "success")

\* handleFetchDeltaList after the listing has arrived: the list is displayed
\* and the status line tells how many files there are
DeltaListReport(u, list) ==
    IF Len(list) = 0
    THEN showDeltaStatus(displayDeltaFilesList(u, list), MsgNoDeltaFiles, "success")
    ELSE showDeltaStatus(displayDeltaFilesList(u, list), MsgFound(list), "success")

\* handleFetchDeltaList(), up to its return or its await of
\* getDeltaListAsAdmin(). The listing operation is the specification's
\* listAdminFiles(): without a token it fails at once and issues no request;
\* with one it issues a GET carrying the bearer credential.
handleFetchDeltaList ==
    /\ Alive
    /\ uiHandlers
    /\ IF ~APP_STATE.authenticated
       THEN /\ ui' = showDeltaError(ui, ErrAdminNeedsAuth)
            /\ UNCHANGED dataVars
       ELSE IF TokenMissing(getIdToken)
       THEN /\ last' = Completed("getDeltaListAsAdmin", FALSE, FALSE, "threw", NoData,
                                 ErrNoToken)
            /\ ui' = showDeltaError(ui, ErrNoToken)
            /\ UNCHANGED <<dataCache, dataCalls, netCount, attempt>>
       ELSE /\ netCount < MaxRequests
            /\ netCount' = netCount + 1
            /\ dataCalls' = dataCalls \cup
                 {Pending("getDeltaListAsAdmin", FALSE, netCount + 1, getIdToken, NoData)}
            /\ ui' = ui
            /\ UNCHANGED <<dataCache, last, attempt>>
    /\ UNCHANGED <<page, APP_STATE, uiHandlers>>
    /\ UNCHANGED authVars

\* handleFetchDeltaList resumed: the listing returns the array of a 2xx
\* response, or throws for a failed request
handleFetchDeltaListResumes(c, r) ==
    /\ Alive
    /\ c \in dataCalls
    /\ c.op = "getDeltaListAsAdmin"
    /\ dataCalls' = dataCalls \ {c}
    /\ IF r.kind = "ok"
       THEN /\ last' = Completed("getDeltaListAsAdmin", FALSE, TRUE, "returned",
                                 FileListing(r.files), Null)
            /\ ui' = DeltaListReport(ui, r.files)
       ELSE /\ last' = Completed("getDeltaListAsAdmin", FALSE, TRUE, "threw", NoData,
                                 FetchError(r.kind, ErrFailedToFetch))
            /\ ui' = showDeltaError(ui, FetchError(r.kind, ErrFailedToFetch))
    /\ UNCHANGED <<dataCache, netCount, attempt>>
    /\ UNCHANGED <<page, APP_STATE, uiHandlers>>
    /\ UNCHANGED authVars

----------------------------------------------------------------------------
(* The page *)

Next ==
    \/ \E loaded \in BOOLEAN : initializeApp(loaded)
    \/ \E u \in Users : LoginSuccessEvent(u)
    \/ \E c \in detailCalls : acquireTokenSilentResolves(c)
    \/ \E c \in detailCalls : getUserDetailsFails(c)
    \/ \E c \in detailCalls : getUserDetailsSucceeds(c)
    \/ signIn
    \/ ApiSignOut
    \/ handleSignOut
    \/ RedirectNavigates
    \/ RedirectFails
    \/ getIdTokenClaims
    \/ \E u \in Users : signInSucceeds(u)
    \/ \E text \in TextareaValues : handleSaveUserData(text)
    \/ \E c \in dataCalls, r \in SaveResponses : handleSaveUserDataResumes(c, r)
    \/ handleFetchDeltaList
    \/ \E c \in dataCalls, r \in AdminResponses : handleFetchDeltaListResumes(c, r)
    \/ \E fr \in BOOLEAN : getData(fr)
    \/ \E c \in dataCalls, r \in Responses : getDataResumes(c, r[1], r[2])
    \/ \E fr \in BOOLEAN : getUserData(fr)
    \/ \E c \in dataCalls, r \in Responses : getUserDataResumes(c, r[1], r[2])
    \/ \E data \in CallerPayloads : saveUserData(data)
    \/ \E c \in dataCalls, r \in SaveResponses : saveUserDataResumes(c, r)
    \/ clearDataCache
    \/ ApiGetAccount
    \/ ApiGetUserDetails
    \/ ApiHandleRedirectResponse
    \/ handleFetchData
    \/ \E c \in dataCalls, r \in Responses : handleFetchDataResumes(c, r[1], r[2])
    \/ handleFetchUserData
    \/ \E c \in dataCalls, r \in Responses : handleFetchUserDataResumes(c, r[1], r[2])

Spec == Init /\ [][Next]_vars

\* the Data Client with the session changes that give and take the token
NextData ==
    \/ \E loaded \in BOOLEAN : initializeApp(loaded)
    \/ \E c \in detailCalls : acquireTokenSilentResolves(c)
    \/ \E c \in detailCalls : getUserDetailsFails(c)
    \/ \E c \in detailCalls : getUserDetailsSucceeds(c)
    \/ ApiSignOut
    \/ \E fr \in BOOLEAN : getData(fr)
    \/ \E c \in dataCalls, r \in Responses : getDataResumes(c, r[1], r[2])
    \/ \E fr \in BOOLEAN : getUserData(fr)
    \/ \E c \in dataCalls, r \in Responses : getUserDataResumes(c, r[1], r[2])
    \/ \E data \in CallerPayloads : saveUserData(data)
    \/ \E c \in dataCalls, r \in SaveResponses : saveUserDataResumes(c, r)
    \/ clearDataCache

SpecData == Init /\ [][NextData]_vars

\* the Identity Session and the Coordinator's session handling
NextSession ==
    \/ \E loaded \in BOOLEAN : initializeApp(loaded)
    \/ \E u \in Users : LoginSuccessEvent(u)
    \/ \E c \in detailCalls : acquireTokenSilentResolves(c)
    \/ \E c \in detailCalls : getUserDetailsFails(c)
    \/ \E c \in detailCalls : getUserDetailsSucceeds(c)
    \/ signIn
    \/ ApiSignOut
    \/ handleSignOut
    \/ RedirectNavigates
    \/ RedirectFails

SpecSession == Init /\ [][NextSession]_vars

\* the session as the Coordinator alone drives it: page load, the login event,
\* the two buttons, and the provider's redirects
NextCoordinator ==
    \/ \E loaded \in BOOLEAN : initializeApp(loaded)
    \/ \E u \in Users : LoginSuccessEvent(u)
    \/ \E c \in detailCalls : acquireTokenSilentResolves(c)
    \/ \E c \in detailCalls : getUserDetailsFails(c)
    \/ \E c \in detailCalls : getUserDetailsSucceeds(c)
    \/ signIn
    \/ handleSignOut
    \/ RedirectNavigates
    \/ RedirectFails

SpecCoordinator == Init /\ [][NextCoordinator]_vars

\* the exported functions of the Identity Session, called in any order
NextApi ==
    \/ \E loaded \in BOOLEAN : initializeApp(loaded)
    \/ \E c \in detailCalls : acquireTokenSilentResolves(c)
    \/ \E c \in detailCalls : getUserDetailsFails(c)
    \/ \E c \in detailCalls : getUserDetailsSucceeds(c)
    \/ signIn
    \/ ApiSignOut
    \/ ApiGetAccount
    \/ ApiGetUserDetails
    \/ ApiHandleRedirectResponse
    \/ getIdTokenClaims
    \/ RedirectFails

SpecApi == Init /\ [][NextApi]_vars

\* the responses the requests get where the claims are about the session and
\* not about the cache: one success and one failure of each kind of request
SessionResponses == { <<"ok", "">>, <<"http", "">> }

SessionSaveResponses ==
    { r \in SaveResponses : ~r.jsonType /\ (r.status = "204" \/ r.status = "rejected") }

\* and one object handed to saveUserData
SessionPayloads == { d \in CallerPayloads : d.lastModified = NoTime }

\* every exported function of auth.js and dataService.js, called in any order
\* on a page that has loaded
NextExports ==
    \/ \E loaded \in BOOLEAN : initializeApp(loaded)
    \/ \E c \in detailCalls : acquireTokenSilentResolves(c)
    \/ \E c \in detailCalls : getUserDetailsFails(c)
    \/ \E c \in detailCalls : getUserDetailsSucceeds(c)
    \/ signIn
    \/ ApiSignOut
    \/ ApiGetAccount
    \/ ApiHandleRedirectResponse
    \/ getIdTokenClaims
    \/ \E fr \in BOOLEAN : getData(fr)
    \/ \E c \in dataCalls, r \in SessionResponses : getDataResumes(c, r[1], r[2])
    \/ \E fr \in BOOLEAN : getUserData(fr)
    \/ \E c \in dataCalls, r \in SessionResponses : getUserDataResumes(c, r[1], r[2])
    \/ \E data \in SessionPayloads : saveUserData(data)
    \/ \E c \in dataCalls, r \in SessionSaveResponses : saveUserDataResumes(c, r)
    \/ clearDataCache

SpecExports == Init /\ [][NextExports]_vars

\* the Data Client under the Coordinator's sign-out and a later sign-in
NextPage ==
    \/ \E loaded \in BOOLEAN : initializeApp(loaded)
    \/ \E u \in Users : LoginSuccessEvent(u)
    \/ \E c \in detailCalls : acquireTokenSilentResolves(c)
    \/ \E c \in detailCalls : getUserDetailsFails(c)
    \/ \E c \in detailCalls : getUserDetailsSucceeds(c)
    \/ handleSignOut
    \/ \E fr \in BOOLEAN : getData(fr)
    \/ \E c \in dataCalls, r \in Responses : getDataResumes(c, r[1], r[2])
    \/ \E fr \in BOOLEAN : getUserData(fr)
    \/ \E c \in dataCalls, r \in Responses : getUserDataResumes(c, r[1], r[2])
    \/ \E data \in CallerPayloads : saveUserData(data)
    \/ \E c \in dataCalls, r \in SaveResponses : saveUserDataResumes(c, r)
    \/ clearDataCache

SpecPage == Init /\ [][NextPage]_vars

\* getIdTokenClaims over the idToken values a token response can carry: the
\* page is signed in and getUserDetails has stored the response's idToken
InitClaims ==
    /\ page = "running"
    /\ msalInstance = TRUE
    /\ providerAccount = FirstUser
    /\ redirect = "none"
    /\ \E tok \in TokenInputs \ {NoToken} :
          /\ userSessionData = [userDetails |-> FirstUser, idToken |-> tok,
                                accessToken |-> AccessTokenOf(FirstUser)]
          /\ ui = updateAdminAccess(showAuthenticatedUser(InitUi),
                                    IdTokenClaims(tok).value)
    /\ dataCache = InitCache
    /\ APP_STATE = [initialized |-> TRUE, authenticated |-> TRUE]
    /\ uiHandlers = TRUE
    /\ browserStorage = {}
    /\ dataCalls = {}
    /\ detailCalls = {}
    /\ netCount = 0
    /\ loginCount = 0
    /\ last = NoCall
    /\ attempt = NoAttempt
    /\ signedOut = FALSE
    /\ logoutSeen = << >>

NextClaims ==
    \/ getIdTokenClaims
    \/ ApiSignOut
    \/ RedirectFails

SpecClaims == InitClaims /\ [][NextClaims]_vars

\* a completed sign-in and what follows it in the session
NextSignIn ==
    \/ \E loaded \in BOOLEAN : initializeApp(loaded)
    \/ \E u \in Users : signInSucceeds(u)
    \/ \E c \in detailCalls : acquireTokenSilentResolves(c)
    \/ \E c \in detailCalls : getUserDetailsFails(c)
    \/ \E c \in detailCalls : getUserDetailsSucceeds(c)
    \/ signIn
    \/ handleSignOut
    \/ RedirectNavigates
    \/ RedirectFails

SpecSignIn == Init /\ [][NextSignIn]_vars

\* the token accessor while the session gives, replaces and takes the token
NextTokens ==
    \/ \E loaded \in BOOLEAN : initializeApp(loaded)
    \/ \E u \in Users : LoginSuccessEvent(u)
    \/ \E c \in detailCalls : acquireTokenSilentResolves(c)
    \/ \E c \in detailCalls : getUserDetailsFails(c)
    \/ \E c \in detailCalls : getUserDetailsSucceeds(c)
    \/ ApiSignOut
    \/ getIdTokenClaims

SpecTokens == Init /\ [][NextTokens]_vars

\* the Save and the admin listing buttons
NextHandlers ==
    \/ \E loaded \in BOOLEAN : initializeApp(loaded)
    \/ \E c \in detailCalls : acquireTokenSilentResolves(c)
    \/ \E c \in detailCalls : getUserDetailsFails(c)
    \/ \E c \in detailCalls : getUserDetailsSucceeds(c)
    \/ ApiSignOut
    \/ \E text \in TextareaValues : handleSaveUserData(text)
    \/ \E c \in dataCalls, r \in SaveResponses : handleSaveUserDataResumes(c, r)
    \/ handleFetchDeltaList
    \/ \E c \in dataCalls, r \in AdminResponses : handleFetchDeltaListResumes(c, r)

SpecHandlers == Init /\ [][NextHandlers]_vars

\* the page as its user drives it: page load, the login event, and the Sign
\* out, Fetch Data and Fetch User Data buttons
NextButtons ==
    \/ \E loaded \in BOOLEAN : initializeApp(loaded)
    \/ \E u \in Users : LoginSuccessEvent(u)
    \/ \E c \in detailCalls : acquireTokenSilentResolves(c)
    \/ \E c \in detailCalls : getUserDetailsFails(c)
    \/ \E c \in detailCalls : getUserDetailsSucceeds(c)
    \/ handleSignOut
    \/ handleFetchData
    \/ \E c \in dataCalls, r \in Responses : handleFetchDataResumes(c, r[1], r[2])
    \/ handleFetchUserData
    \/ \E c \in dataCalls, r \in Responses : handleFetchUserDataResumes(c, r[1], r[2])

SpecButtons == Init /\ [][NextButtons]_vars

----------------------------------------------------------------------------
(* Steps of the Data Client, as the claims speak of them *)

\* a getData / getUserData / saveUserData call is made (its synchronous part runs)
DataCallStep ==
    \/ \E fr \in BOOLEAN : getData(fr) \/ getUserData(fr)
    \/ \E data \in CallerPayloads : saveUserData(data)

\* a getData or getUserData call comes to its end, returning or throwing
FetchEndStep ==
    \/ /\ \E fr \in BOOLEAN : getData(fr) \/ getUserData(fr)
       /\ netCount' = netCount
    \/ \E c \in dataCalls, r \in Responses :
          getDataResumes(c, r[1], r[2]) \/ getUserDataResumes(c, r[1], r[2])

\* a saveUserData call comes to its end with the response (or the rejection)
SaveEndStep == \E c \in dataCalls, r \in SaveResponses : saveUserDataResumes(c, r)

SignOutStep == ApiSignOut \/ handleSignOut

\* a getData call runs one of its slices: the call itself or its resumption
getDataStep ==
    \/ \E fr \in BOOLEAN : getData(fr)
    \/ \E c \in dataCalls, r \in Responses : getDataResumes(c, r[1], r[2])

\* a getUserData call runs one of its slices
getUserDataStep ==
    \/ \E fr \in BOOLEAN : getUserData(fr)
    \/ \E c \in dataCalls, r \in Responses : getUserDataResumes(c, r[1], r[2])

----------------------------------------------------------------------------
(* Claims *)

\* C1: once signOut() has run, and while the token it cleared is still absent,
\* a getData(false) call throws the 'No authentication token' error; it does
\* not return a payload. (getUserData(false) runs the same statements on
\* dataCache.userdata.)
C1_FetchAfterSignOutFails ==
    [][ (signedOut /\ getIdToken = NoToken /\ getData(FALSE))
          => (last'.outcome = "threw" /\ last'.err = ErrNoToken) ]_vars

\* C2: every handleSignOut that signs an authenticated session out leaves
\* DataCache in its initial idle state: status idle; data, userdata, error and
\* lastFetched absent.
C2_SignOutClearsCache ==
    [][ (handleSignOut /\ APP_STATE.initialized /\ APP_STATE.authenticated)
          => dataCache' = InitCache ]_vars

\* C3: getData and getUserData never return, while one user's idToken is held,
\* a payload that was fetched or saved with the other user's token.
C3_NoCrossUserPayload ==
    [][ (FetchEndStep /\ last'.outcome = "returned" /\ getIdToken # NoToken)
          => last'.value.by \in {Null, TokenUser(getIdToken)} ]_vars

\* C4: a Data Client call made while no idToken is held throws the 'No
\* authentication token' error, whatever the cache holds and whatever
\* forceRefresh is.
C4_NoTokenAlwaysFails ==
    [][ (getIdToken = NoToken /\ DataCallStep)
          => (last'.outcome = "threw" /\ last'.err = ErrNoToken) ]_vars

\* C5: a Data Client call made while no idToken is held issues no request: the
\* request count and the set of suspended requests are as before the call.
C5_NoTokenNoRequest ==
    [][ (getIdToken = NoToken /\ DataCallStep)
          => (netCount' = netCount /\ dataCalls' = dataCalls) ]_vars

\* C5 witness: requests had been issued, the token is gone, and the call made
\* last threw for want of a token
C5_Witness ==
    /\ getIdToken = NoToken
    /\ netCount > 0
    /\ last.outcome = "threw"
    /\ last.err = ErrNoToken
    /\ ~last.issued

\* C6: from signOut() on, getIdToken() is absent until a getUserDetails call
\* that started after the sign-out has acquired a token.
C6_TokenAbsentAfterSignOut == signedOut => getIdToken = NoToken

\* C7: signOut() on an initialized session leaves idToken, accessToken and
\* userDetails absent, with or without a provider account; they are absent
\* already when logout(...) is invoked, and a failing logout changes none of them.
C7_ClearBeforeLogout ==
    [][ /\ (SignOutStep /\ msalInstance)
            => /\ userSessionData' = InitSession
               /\ providerAccount # Null => logoutSeen' = <<InitSession>>
        /\ RedirectFails => userSessionData' = userSessionData ]_vars

\* C7 witness: logout was invoked and has failed; the session fields are absent
C7_Witness ==
    /\ logoutSeen # << >>
    /\ redirect = "none"
    /\ signedOut
    /\ userSessionData = InitSession

\* C8: clearDataCache() leaves every DataCache field at its initial value.
C8_ClearResetsAll ==
    [][ clearDataCache => dataCache' = InitCache ]_vars

\* C9: when a getData(false) call has fetched its payload from the network and
\* returned it, the getData(false) call made next (no other Data Client call
\* having completed in between) issues no request and returns the same
\* payload: one request in total. The same for getUserData(false), no
\* saveUserData being under way.
C9_CacheIdempotence ==
    [][ /\ (/\ last.op = "getData" /\ ~last.fr /\ last.outcome = "returned"
            /\ last.issued
            /\ getData(FALSE))
            => (/\ netCount' = netCount /\ dataCalls' = dataCalls
                /\ last'.outcome = "returned" /\ last'.value = last.value)
        /\ (/\ last.op = "getUserData" /\ ~last.fr /\ last.outcome = "returned"
            /\ last.issued
            /\ \A c \in dataCalls : c.op # "saveUserData"
            /\ getUserData(FALSE))
            => (/\ netCount' = netCount /\ dataCalls' = dataCalls
                /\ last'.outcome = "returned" /\ last'.value = last.value) ]_vars

\* C9 witness: one request was issued in all, and the call made last was a
\* getData(false) that returned that request's payload from the cache
C9_Witness ==
    /\ netCount = 1
    /\ last.op = "getData" /\ ~last.fr /\ last.outcome = "returned" /\ ~last.issued
    /\ last.value.kind = "primary" /\ last.value.req = 1

\* C10: a getData(true) call made with a token held issues a request whatever
\* the cache holds, and no getData(true) call returns without having issued one.
C10_ForcedRefreshBypass ==
    [][ getData(TRUE)
          => /\ getIdToken # NoToken
                  => /\ netCount' = netCount + 1
                     /\ \E c \in dataCalls' \ dataCalls :
                           c.op = "getData" /\ c.fr /\ c.req = netCount'
             /\ last' = last \/ last'.outcome = "threw" ]_vars

\* C10 witness: a forced refresh is under way although the cache is populated
C10_Witness ==
    /\ dataCache.data # NoData
    /\ \E c \in dataCalls : c.op = "getData" /\ c.fr

\* C11: a getData or getUserData call that throws (no token, non-2xx response,
\* rejected request, unparseable 2xx body) changes only status and error: data,
\* userdata and lastFetched are as before. The non-forced call of the same
\* operation made next, with the cache populated (and no saveUserData under
\* way for getUserData), issues no request and returns the cached payload.
C11_FailureKeepsCache ==
    [][ /\ (FetchEndStep /\ last'.outcome = "threw")
            => /\ dataCache'.data = dataCache.data
               /\ dataCache'.userdata = dataCache.userdata
               /\ dataCache'.lastFetched = dataCache.lastFetched
               /\ dataCache'.status = STATUS.ERROR
               /\ dataCache'.error # Null
        /\ (/\ last.op = "getData" /\ last.outcome = "threw"
            /\ dataCache.data # NoData
            /\ getData(FALSE))
            => (/\ netCount' = netCount /\ dataCalls' = dataCalls
                /\ last'.outcome = "returned" /\ last'.value = dataCache.data
                /\ dataCache' = dataCache)
        /\ (/\ last.op = "getUserData" /\ last.outcome = "threw"
            /\ dataCache.userdata # NoData
            /\ \A c \in dataCalls : c.op # "saveUserData"
            /\ getUserData(FALSE))
            => (/\ netCount' = netCount /\ dataCalls' = dataCalls
                /\ last'.outcome = "returned" /\ last'.value = dataCache.userdata
                /\ dataCache' = dataCache) ]_vars

\* C11 witness: the first request cached its payload, the second (forced) one
\* failed at the network, and the payload of the first is still cached
C11_Witness ==
    /\ netCount = 2 /\ dataCalls = {}
    /\ last.op = "getData" /\ last.fr /\ last.issued /\ last.outcome = "threw"
    /\ dataCache.status = STATUS.ERROR
    /\ dataCache.data # NoData /\ dataCache.data.req = 1
    /\ dataCache.lastFetched # NoTime

\* C12: no slice of a getData call changes dataCache.userdata, and no slice of
\* a getUserData or saveUserData call changes dataCache.data.
C12_CachesIndependent ==
    [][ /\ getDataStep => dataCache'.userdata = dataCache.userdata
        /\ (\/ getUserDataStep
            \/ \E data \in CallerPayloads : saveUserData(data)
            \/ SaveEndStep)
            => dataCache'.data = dataCache.data ]_vars

\* C12 witness: both caches are populated, each by its own endpoint's payload
C12_Witness ==
    /\ dataCache.data # NoData /\ dataCache.data.kind = "primary"
    /\ dataCache.userdata # NoData /\ dataCache.userdata.kind = "delta"
    /\ dataCache.data.req = 1 /\ dataCache.userdata.req = 2

\* C13: a getData (getUserData) call made with a token held and its cache empty
\* issues a request of its own also when requests of the same operation are in
\* flight; and each 2xx response that parses is written to the cache when it
\* arrives, whatever was written before: after two overlapping calls the cache
\* holds the payload of the response that arrived later.
C13_NoCoalescingLastWriterWins ==
    [][ /\ \A fr \in BOOLEAN :
             (getData(fr) /\ getIdToken # NoToken /\ dataCache.data = NoData)
               => /\ netCount' = netCount + 1
                  /\ dataCalls \subseteq dataCalls'
                  /\ \E c \in dataCalls' \ dataCalls : c.op = "getData" /\ c.req = netCount'
        /\ \A fr \in BOOLEAN :
             (getUserData(fr) /\ getIdToken # NoToken /\ dataCache.userdata = NoData)
               => /\ netCount' = netCount + 1
                  /\ dataCalls \subseteq dataCalls'
                  /\ \E c \in dataCalls' \ dataCalls :
                        c.op = "getUserData" /\ c.req = netCount'
        /\ \A c \in dataCalls :
             /\ getDataResumes(c, "ok", "")
                  => dataCache'.data = PrimaryPayload(c.token, c.req)
             /\ getUserDataResumes(c, "ok", "")
                  => dataCache'.userdata = DeltaPayload(c.token, c.req) ]_vars

\* C13 witness: two getData calls were made on an empty cache; the response to
\* the second request has arrived and is cached, the first is still in flight
C13_Witness ==
    /\ netCount = 2
    /\ \E c \in dataCalls : c.op = "getData" /\ c.req = 1 /\ ~c.fr
    /\ last.op = "getData" /\ ~last.fr /\ last.issued /\ last.outcome = "returned"
    /\ dataCache.data # NoData /\ dataCache.data.req = 2

\* C14: every request a Data Client call issues carries the idToken the
\* Identity Session held when the call looked it up, which is before the
\* request exists; a request in flight keeps that credential whatever becomes
\* of the session.
C14_TokenLookupBeforeRequest ==
    [][ /\ DataCallStep
            => \A c \in dataCalls' \ dataCalls :
                  c.token = getIdToken /\ c.token # NoToken
        /\ \A c \in dataCalls :
              c \in dataCalls' \/ \A d \in dataCalls' : d.req # c.req ]_vars

\* C14 witness: a request is in flight with the credential looked up at its
\* call, and the session has been signed out since
C14_Witness ==
    /\ getIdToken = NoToken
    /\ \E c \in dataCalls : c.token = IdTokenOf(FirstUser)

\* C15: a saveUserData call made with a token held submits a body whose
\* lastModified is the time of the call, whatever lastModified the caller's
\* object had.
C15_SaveStampsLastModified ==
    [][ \A data \in CallerPayloads :
          (saveUserData(data) /\ getIdToken # NoToken)
            => \E c \in dataCalls' \ dataCalls :
                  /\ c.op = "saveUserData"
                  /\ c.body.lastModified = Now
                  /\ c.body.kind = data.kind ]_vars

\* C15 witness: a save was submitted when the clock read 2, later than any
\* lastModified a caller supplies
C15_Witness ==
    \E c \in dataCalls :
        c.op = "saveUserData" /\ c.req = 2 /\ c.body.lastModified = 2

\* C16: saveUserData, called with a token held, caches the payload it submits
\* (with its stamp); no response, whatever its status or body, changes the
\* cache; and when a save has returned and nothing else has written
\* dataCache.userdata since its call, getUserData(false) returns the submitted
\* payload and issues no request.
C16_SaveCachesSubmitted ==
    [][ /\ \A data \in CallerPayloads :
             (saveUserData(data) /\ getIdToken # NoToken)
               => \E c \in dataCalls' \ dataCalls : dataCache'.userdata = c.body
        /\ SaveEndStep => dataCache' = dataCache
        /\ (/\ last.op = "saveUserData" /\ last.outcome = "returned"
            /\ dataCache.userdata = last.value
            /\ getUserData(FALSE))
            => (/\ netCount' = netCount /\ dataCalls' = dataCalls
                /\ last'.outcome = "returned" /\ last'.value = last.value) ]_vars

\* C16 witness: the only request issued was a save; it was answered 2xx, and
\* the getUserData(false) call that followed returned the stamped payload
C16_Witness ==
    /\ netCount = 1 /\ dataCalls = {}
    /\ last.op = "getUserData" /\ ~last.fr /\ ~last.issued /\ last.outcome = "returned"
    /\ last.value.kind = "caller" /\ last.value.lastModified = 1
    /\ dataCache.userdata = last.value

\* C17: a non-2xx response to the PUT makes saveUserData throw, and the message
\* of the error it throws contains the status code and the response body text.
C17_SaveErrorCarriesBody ==
    [][ \A c \in dataCalls, r \in SaveResponses :
          (saveUserDataResumes(c, r) /\ r.status # "rejected" /\ ~ResponseOk(r))
            => /\ last'.outcome = "threw"
               /\ Contains(last'.err, r.body)
               /\ Contains(last'.err, r.status) ]_vars

\* C17 witness: a save was answered 500 and threw
C17_Witness ==
    /\ last.op = "saveUserData" /\ last.issued /\ last.outcome = "threw"
    /\ Contains(last.err, "500")

\* C18: saveUserData returns for every 2xx response, also one whose body is
\* empty or is not valid JSON, whatever content type it declares.
C18_SaveSucceedsOnAny2xx ==
    [][ \A c \in dataCalls, r \in SaveResponses :
          (saveUserDataResumes(c, r) /\ ResponseOk(r)) => last'.outcome = "returned" ]_vars

\* C19: whenever no request is in flight, dataCache.status tells how the fetch
\* attempt started most recently ended: success if it succeeded, error if it
\* failed, in whatever order overlapping attempts completed.
C19_StatusOfNewestAttempt ==
    dataCalls = {}
      => /\ attempt.outcome = "ok" => dataCache.status = STATUS.SUCCESS
         /\ attempt.outcome = "failed" => dataCache.status = STATUS.ERROR

\* C20: getIdTokenClaims() always returns, never throws; it returns null when
\* no idToken is held, when the token has not exactly three segments, and when
\* its middle segment cannot be decoded or parsed; and it changes no field of
\* the session.
C20_ClaimsNeverThrow ==
    [][ getIdTokenClaims
          => /\ last'.outcome = "returned"
             /\ (\/ getIdToken = NoToken
                 \/ Len(getIdToken) # 3
                 \/ getIdToken[2] \notin {"hdr"} \cup Users)
                   => last'.value = NoData
             /\ (Len(getIdToken) = 3 /\ getIdToken[2] \in Users)
                   => last'.value = [kind |-> "claims", sub |-> getIdToken[2]]
             /\ userSessionData' = userSessionData ]_vars

\* C20 witness: a three-segment token whose middle segment is not base64 is
\* held, and getIdTokenClaims has returned null for it
C20_Witness ==
    /\ Len(getIdToken) = 3 /\ getIdToken[2] = "!!"
    /\ last.op = "getIdTokenClaims" /\ last.outcome = "returned"
    /\ last.value = NoData

\* C21: every getIdTokenClaims() call returns the decoding of the idToken held
\* at that call: null when none is held, the claims of the token's subject
\* otherwise, also after getUserDetails has replaced the token or signOut has
\* cleared it.
C21_ClaimsFollowToken ==
    [][ getIdTokenClaims
          => /\ last'.outcome = "returned"
             /\ getIdToken = NoToken => last'.value = NoData
             /\ getIdToken # NoToken
                  => last'.value = [kind |-> "claims", sub |-> TokenUser(getIdToken)] ]_vars

\* C21 witness: the token issued to alice was replaced by one issued to bob,
\* and getIdTokenClaims has returned bob's claims
C21_Witness ==
    /\ loginCount = 1
    /\ getIdToken = IdTokenOf("bob")
    /\ last.op = "getIdTokenClaims" /\ last.value # NoData /\ last.value.sub = "bob"

\* C22: when the identity library is unavailable, initializeApp leaves the
\* session uninitialized (no instance, APP_STATE.initialized false) and wires
\* no handler; from then on no handler is wired, no getUserDetails call is
\* made, no redirect is started and the session fields stay absent.
C22_InitFailureStopsCoordinator ==
    [][ /\ initializeApp(FALSE)
            => /\ ~msalInstance' /\ ~APP_STATE'.initialized /\ ~uiHandlers'
               /\ detailCalls' = {} /\ userSessionData' = InitSession
        /\ (page = "running" /\ ~msalInstance)
            => /\ ~msalInstance' /\ ~APP_STATE'.initialized /\ ~uiHandlers'
               /\ detailCalls' = {} /\ redirect' = "none" /\ loginCount' = 0
               /\ userSessionData' = InitSession ]_vars

\* C22 witness: the page runs without an identity library
C22_Witness ==
    /\ page = "running" /\ ~msalInstance
    /\ ~APP_STATE.initialized /\ ~uiHandlers
    /\ providerAccount # Null

C24_GetUserDetailsSoftFail ==
    [][ \A c \in detailCalls :
          (getUserDetailsFails(c) /\ c.stage = "acquire")
            => /\ userSessionData' = userSessionData
               /\ ~APP_STATE'.authenticated ]_vars

\* C24 witness: alice's token and profile are held, the silent acquisition for
\* the account that signed in next (bob) has failed
C24_Witness ==
    /\ providerAccount = "bob"
    /\ userSessionData = [userDetails |-> "alice", idToken |-> IdTokenOf("alice"),
                          accessToken |-> AccessTokenOf("alice")]
    /\ detailCalls = {} /\ loginCount = 1
    /\ ~APP_STATE.authenticated /\ ~signedOut

\* C25: when updateUserState has found the user signed in, the admin section
\* is displayed exactly if the token's claims have a roles entry that is
\* 'admin' or 'superadmin' in any letter case.
C25_AdminSectionByRole ==
    [][ \A c \in detailCalls :
          getUserDetailsSucceeds(c)
            => LET claims == IdTokenClaims(getIdToken).value IN
               ui'.adminSection <=> (claims # NoData /\ HasAdminRole(claims)) ]_vars

\* C26: when the admin listing is answered 2xx with an empty array, the
\* listing returns the empty sequence and handleFetchDeltaList shows 'No delta
\* files found' as a success.
C26_EmptyListingIsSuccess ==
    [][ \A c \in dataCalls, r \in AdminResponses :
          (handleFetchDeltaListResumes(c, r) /\ r.kind = "ok" /\ r.files = << >>)
            => /\ last'.outcome = "returned"
               /\ last'.value = FileListing(<< >>)
               /\ ui'.deltaStatus = [text |-> MsgNoDeltaFiles, class |-> "success"]
               /\ ui'.deltaList = [shown |-> TRUE, files |-> << >>] ]_vars

\* C26 witness: an empty listing has arrived and is reported
C26_Witness ==
    /\ last.op = "getDeltaListAsAdmin" /\ last.outcome = "returned"
    /\ last.value = FileListing(<< >>)
    /\ ui.deltaStatus.text = MsgNoDeltaFiles
    /\ ui.deltaList.shown

\* C27: when the transport rejects the request of getData, getUserData or
\* saveUserData, the call throws an error of the client's own making: its
\* message is not the message of the transport's exception.
C27_TransportErrorNormalized ==
    [][ /\ \A c \in dataCalls, msg \in RejectMessages :
             (getDataResumes(c, "reject", msg) \/ getUserDataResumes(c, "reject", msg))
               => (last'.outcome = "threw" /\ last'.err # msg)
        /\ \A c \in dataCalls, r \in SaveResponses :
             (saveUserDataResumes(c, r) /\ r.status = "rejected")
               => (last'.outcome = "threw" /\ last'.err # r.body) ]_vars

\* C28: no idToken and no accessToken is ever in localStorage, sessionStorage
\* or a cookie: the code writes nothing there.
C28_TokensInMemoryOnly ==
    /\ browserStorage = {}
    /\ \A u \in Users :
          IdTokenOf(u) \notin browserStorage /\ AccessTokenOf(u) \notin browserStorage

\* C28 witness: both tokens are held, requests have carried the idToken, and
\* durable storage is empty
C28_Witness ==
    /\ getIdToken # NoToken /\ userSessionData.accessToken # NoToken
    /\ netCount > 0 /\ dataCache.data # NoData
    /\ browserStorage = {}

\* C29: when handleSignOut has run on an initialized application, the token
\* section, the data section and the admin section are not displayed.
C29_SignOutHidesSections ==
    [][ (handleSignOut /\ APP_STATE.initialized)
          => (~ui'.tokenSection /\ ~ui'.dataSection /\ ~ui'.adminSection) ]_vars

\* C30: when Save is clicked by a signed-in user and the textarea does not
\* hold JSON, handleSaveUserData shows the invalid-JSON error and does nothing
\* else: no request is issued and DataCache is as it was.
C30_MalformedPayloadStops ==
    [][ \A text \in {"", "{name"} :
          (handleSaveUserData(text) /\ APP_STATE.authenticated)
            => /\ ui'.dataStatus = [text |-> "Error: " \o ErrInvalidJson, class |-> "error"]
               /\ netCount' = netCount /\ dataCalls' = dataCalls
               /\ dataCache' = dataCache /\ last' = last ]_vars

\* C30 witness: the invalid-JSON error is shown to a signed-in user with a
\* token, before any request
C30_Witness ==
    /\ ui.dataStatus.text = "Error: " \o ErrInvalidJson
    /\ APP_STATE.authenticated /\ getIdToken # NoToken
    /\ netCount = 0 /\ dataCache = InitCache

\* C31: while the session is uninitialized (no msalInstance), signIn, signOut,
\* getAccount, getUserDetails and handleRedirectResponse call nothing of the
\* identity provider (no redirect, no logout, no silent acquisition, no
\* getAllAccounts or handleRedirectPromise), leave idToken, accessToken and
\* userDetails as they are, and the three that return a value return null.
C31_UninitializedCallsAreInert ==
    [][ (Alive /\ ~msalInstance)
          => /\ (signIn \/ ApiSignOut \/ ApiGetAccount \/ ApiGetUserDetails
                   \/ ApiHandleRedirectResponse)
                  => /\ userSessionData' = userSessionData
                     /\ redirect' = redirect
                     /\ logoutSeen' = logoutSeen
                     /\ detailCalls' = detailCalls
             /\ (ApiGetAccount \/ ApiGetUserDetails \/ ApiHandleRedirectResponse)
                  => /\ last'.outcome = "returned"
                     /\ last'.value = NoData
                     /\ ~last'.issued ]_vars

\* C31 witness: the page runs without an instance, the provider knows an
\* account, and getUserDetails has returned null
C31_Witness ==
    /\ Alive /\ ~msalInstance
    /\ providerAccount # Null
    /\ last.op = "getUserDetails" /\ last.outcome = "returned" /\ last.value = NoData
    /\ detailCalls = {} /\ redirect = "none"

\* C32: in every reachable state, also when a sign-out has run while an
\* updateUserState was awaiting the silent acquisition or the profile call,
\* APP_STATE.authenticated implies that getIdToken() is present.
C32_AuthenticatedHasToken == APP_STATE.authenticated => getIdToken # NoToken

\* C33: in every reachable state of dataCache, status idle implies that data,
\* error and lastFetched are absent; status success implies that error is
\* absent; status error implies that error is a non-empty message.
C33_CacheStatusConsistent ==
    /\ dataCache.status = STATUS.IDLE
         => /\ dataCache.data = NoData
            /\ dataCache.error = Null
            /\ dataCache.lastFetched = NoTime
    /\ dataCache.status = STATUS.SUCCESS => dataCache.error = Null
    /\ dataCache.status = STATUS.ERROR
         => (dataCache.error # Null /\ dataCache.error # "")

\* C33 witness: a fetch threw when its request was rejected without a message,
\* and the cache was cleared afterwards, user data still cached
C33_Witness ==
    /\ dataCache.status = STATUS.IDLE
    /\ last.op = "clearDataCache"
    /\ attempt = NoAttempt
    /\ netCount = 2 /\ dataCalls = {}
    /\ dataCache.userdata # NoData

\* C34: whenever dataCache.status is loading, a getData or getUserData request
\* is in flight, under every interleaving of fetches, saves and clears.
C34_LoadingHasRequestInFlight ==
    dataCache.status = STATUS.LOADING
      => \E c \in dataCalls : c.op \in {"getData", "getUserData"}

\* C34 witness: a fetch overlaps a save, an earlier call having thrown, and
\* the status is loading
C34_Witness ==
    /\ dataCache.status = STATUS.LOADING
    /\ \E c \in dataCalls : c.op = "saveUserData"
    /\ \E c \in dataCalls : c.op = "getUserData"
    /\ last.outcome = "threw"

\* C35: saveUserData(p) caches p before its token check and before the PUT:
\* a call without a token throws with dataCache.userdata = p, a response that
\* makes the save throw leaves the cache alone, and when a save has thrown and
\* nothing else has written dataCache.userdata since its call,
\* getUserData(false) returns p and issues no request.
C35_FailedSaveStillCaches ==
    [][ /\ \A data \in CallerPayloads :
             (saveUserData(data) /\ getIdToken = NoToken)
               => /\ last'.outcome = "threw" /\ last'.value = data
                  /\ dataCache'.userdata = data
                  /\ netCount' = netCount /\ dataCalls' = dataCalls
        /\ \A c \in dataCalls, r \in SaveResponses :
             (saveUserDataResumes(c, r) /\ ~SaveSucceeds(r))
               => (last'.outcome = "threw" /\ dataCache'.userdata = dataCache.userdata)
        /\ (/\ last.op = "saveUserData" /\ last.outcome = "threw"
            /\ dataCache.userdata = last.value
            /\ getUserData(FALSE))
            => (/\ netCount' = netCount /\ dataCalls' = dataCalls
                /\ last'.outcome = "returned" /\ last'.value = last.value) ]_vars

\* C35 witness: no request was ever issued; a save without a token threw, and
\* the getUserData(false) call that followed returned its payload
C35_Witness ==
    /\ netCount = 0 /\ getIdToken = NoToken
    /\ last.op = "getUserData" /\ ~last.fr /\ ~last.issued /\ last.outcome = "returned"
    /\ last.value.kind = "caller" /\ last.value.lastModified = 1
    /\ dataCache.status = STATUS.ERROR /\ dataCache.error = ErrNoToken

\* C36: the idToken goes from absent to present only in the step of
\* getUserDetails that follows a resolved acquireTokenSilent; signIn,
\* handleRedirectResponse, getAccount, getIdTokenClaims and every Data Client
\* operation leave idToken and accessToken as they are (no step that changes
\* one of the two is a step of theirs).
C36_TokenWrittenOnlyByGetUserDetails ==
    [][ /\ (getIdToken = NoToken /\ getIdToken' # NoToken)
             => \E c \in detailCalls : acquireTokenSilentResolves(c)
        /\ (\/ userSessionData'.idToken # userSessionData.idToken
            \/ userSessionData'.accessToken # userSessionData.accessToken)
             => ~(signIn \/ ApiHandleRedirectResponse \/ ApiGetAccount \/ getIdTokenClaims
                    \/ DataCallStep \/ FetchEndStep \/ SaveEndStep \/ clearDataCache) ]_vars

\* C36 witness: the token is held after a sign-out (the acquisition under way
\* at the sign-out resolved after it), signIn has started a redirect and a
\* request has been made with the token
C36_Witness ==
    /\ getIdToken = IdTokenOf("alice")
    /\ signedOut
    /\ netCount > 0
    /\ last.op = "getAccount"

\* C37: a response to a getData or getUserData request that was in flight when
\* clearDataCache ran (no fetch has been started since the clear) does not
\* repopulate the cache: data and lastFetched stay absent and status stays idle.
C37_ClearedCacheStaysCleared ==
    [][ \A c \in dataCalls, r \in Responses :
          (/\ attempt = NoAttempt
           /\ dataCache.status = STATUS.IDLE
           /\ getDataResumes(c, r[1], r[2]) \/ getUserDataResumes(c, r[1], r[2]))
            => /\ dataCache'.data = NoData
               /\ dataCache'.lastFetched = NoTime
               /\ dataCache'.status = STATUS.IDLE ]_vars

\* C38: no handler of the Coordinator asks for a refresh or clears the cache:
\* every request a handler issues was asked for with forceRefresh = false, and
\* once dataCache.data is present it stays present and no Fetch Data click
\* issues a request; likewise for dataCache.userdata and Fetch User Data.
C38_HandlersNeverRefetch ==
    [][ /\ \A c \in dataCalls' : ~c.fr
        /\ ~last'.fr /\ last'.op # "clearDataCache"
        /\ dataCache.data # NoData => dataCache'.data # NoData
        /\ dataCache.userdata # NoData => dataCache'.userdata # NoData
        /\ (handleFetchData /\ dataCache.data # NoData)
             => (netCount' = netCount /\ dataCalls' = dataCalls)
        /\ (handleFetchUserData /\ dataCache.userdata # NoData)
             => (netCount' = netCount /\ dataCalls' = dataCalls) ]_vars

\* C38 witness: alice's data was fetched once; she signed out, bob signed in
\* and clicked Fetch Data: he was shown the cached data, the one request made
\* being the first
C38_Witness ==
    /\ netCount = 1 /\ dataCalls = {}
    /\ userSessionData.userDetails = "bob" /\ APP_STATE.authenticated
    /\ dataCache.data # NoData /\ dataCache.data.by = "alice"
    /\ last.op = "getData" /\ ~last.issued /\ last.outcome = "returned"
    /\ ui.dataStatus.text = MsgDataFetched

====
